---- MODULE Spec2Model ----
(***************************************************************************)
(* ARECAbot dashboard: the RobotApi client (services/api) and the part of  *)
(* App.tsx that subscribes to it.  One action per event-loop task: a call  *)
(* of the public API, a socket event handler, or the continuation of a     *)
(* sendCmd call after one of its awaits.  Every handler runs to completion.*)
(***************************************************************************)
EXTENDS Integers, Sequences, FiniteSets, TLC

(***************************************************************************)
(* JavaScript values.  A value is a tuple whose first element is its tag,  *)
(* so that two values of different kinds differ in their first element.    *)
(***************************************************************************)
Undefined == <<"undefined">>
JsNull    == <<"null">>
Bool(b)   == <<"boolean", b>>
Num(n)    == <<"number", n>>
Str(s)    == <<"string", s>>
Arr(xs)   == <<"array", xs>>
Obj(kvs)  == <<"object", kvs>>

TypeOf(v) == v[1]

\* v.k: the value of property k of v (undefined when v has no such property).
\* Reading a property of null or undefined throws; see ReadThrows.
Get(v, k) ==
    IF TypeOf(v) = "object" /\ \E i \in 1..Len(v[2]) : v[2][i][1] = k
    THEN v[2][CHOOSE i \in 1..Len(v[2]) : v[2][i][1] = k][2]
    ELSE Undefined

ReadThrows(v) == TypeOf(v) \in {"undefined", "null"}

\* s with every double quote and backslash escaped, as JSON.stringify does.
RECURSIVE Escape(_)
Escape(s) ==
    IF s = "" THEN ""
    ELSE LET c == SubSeq(s, 1, 1)
         IN  (IF c = "\"" THEN "\\\"" ELSE IF c = "\\" THEN "\\\\" ELSE c)
             \o Escape(SubSeq(s, 2, Len(s)))

\* The JSON text of a value that is not undefined.
RECURSIVE JSONtext(_)
RECURSIVE JSONitems(_)
RECURSIVE JSONfields(_, _)
JSONtext(v) ==
    CASE TypeOf(v) = "null"    -> "null"
      [] TypeOf(v) = "boolean" -> IF v[2] THEN "true" ELSE "false"
      [] TypeOf(v) = "number"  -> ToString(v[2])
      [] TypeOf(v) = "string"  -> "\"" \o Escape(v[2]) \o "\""
      [] TypeOf(v) = "array"   -> "[" \o JSONitems(v[2]) \o "]"
      [] TypeOf(v) = "object"  -> "{" \o JSONfields(v[2], TRUE) \o "}"

\* array elements: undefined is rendered as null
JSONitems(xs) ==
    IF xs = <<>> THEN ""
    ELSE (IF TypeOf(xs[1]) = "undefined" THEN "null" ELSE JSONtext(xs[1]))
         \o (IF Len(xs) > 1 THEN "," ELSE "")
         \o JSONitems(Tail(xs))

\* object properties: a property whose value is undefined is left out
JSONfields(kvs, first) ==
    IF kvs = <<>> THEN ""
    ELSE IF TypeOf(kvs[1][2]) = "undefined" THEN JSONfields(Tail(kvs), first)
    ELSE (IF first THEN "" ELSE ",")
         \o "\"" \o Escape(kvs[1][1]) \o "\":" \o JSONtext(kvs[1][2])
         \o JSONfields(Tail(kvs), FALSE)

\* JSON.stringify(v): a string, or undefined when v is undefined
JSONstringify(v) ==
    IF TypeOf(v) = "undefined" THEN Undefined ELSE Str(JSONtext(v))

\* `${v}`: the string a template literal puts in place of v
RECURSIVE TemplateString(_)
RECURSIVE JoinItems(_)
TemplateString(v) ==
    CASE TypeOf(v) = "undefined" -> "undefined"
      [] TypeOf(v) = "null"      -> "null"
      [] TypeOf(v) = "boolean"   -> IF v[2] THEN "true" ELSE "false"
      [] TypeOf(v) = "number"    -> ToString(v[2])
      [] TypeOf(v) = "string"    -> v[2]
      [] TypeOf(v) = "array"     -> JoinItems(v[2])
      [] TypeOf(v) = "object"    -> "[object Object]"

JoinItems(xs) ==
    IF xs = <<>> THEN ""
    ELSE (IF TypeOf(xs[1]) \in {"undefined", "null"} THEN "" ELSE TemplateString(xs[1]))
         \o (IF Len(xs) > 1 THEN "," ELSE "")
         \o JoinItems(Tail(xs))

\* t occurs in s
Contains(s, t) ==
    \E i \in 1..(Len(s) - Len(t) + 1) : SubSeq(s, i, i + Len(t) - 1) = t



(***************************************************************************)
(* Inputs.                                                                 *)
(***************************************************************************)
\* commands of the UI's vocabulary (App.tsx sends them as plain strings)
Commands == {"F", "STOP"}

\* the `data` of an inbound payload; Undefined stands for a missing field
DataValues ==
    { Undefined, JsNull, Str("hi"),
      Obj(<< <<"ok", Bool(TRUE)>> >>), Obj(<< <<"us", Num(12)>> >>) }

\* the `type` discriminator; "" stands for a missing field
Discriminators == {"telemetry", "ack", "log", "status", ""}

Envelope(t, d) ==
    Obj( (IF t = "" THEN <<>> ELSE << <<"type", Str(t)>> >>)
         \o (IF TypeOf(d) = "undefined" THEN <<>> ELSE << <<"data", d>> >>) )

\* what the channel can hand to the 'message' handler without text
StructuredPayloads ==
    { Envelope(t, d) : t \in Discriminators, d \in DataValues } \cup { JsNull, Num(5) }

\* texts that are not JSON
BrokenTexts == {"not json{", "TX oops"}

TextPayloads ==
    { Str(JSONtext(v)) : v \in StructuredPayloads } \cup { Str(s) : s \in BrokenTexts }

Payloads == StructuredPayloads \cup TextPayloads

\* the long and the short key of the fields that have both
KeyPairs ==
    [us |-> <<"us", "US">>, temp |-> <<"temp", "T">>, pressure |-> <<"pressure", "P">>,
     state |-> <<"state", "ST">>, dir |-> <<"dir", "DIR">>]

\* what a telemetry object can say of one such field: nothing, one of the
\* keys, or both, with null and 0 among the long-form values
KeyOptions(long, short) ==
    { <<>>,
      << <<long, Num(1)>> >>,
      << <<short, Num(2)>> >>,
      << <<long, Num(1)>>, <<short, Num(2)>> >>,
      << <<long, Num(0)>>, <<short, Num(2)>> >>,
      << <<long, JsNull>>, <<short, Num(2)>> >>,
      << <<long, JsNull>> >> }

\* and of the position: nothing, not an array, arrays of 0 to 3 elements
PosOptions ==
    { <<>>,
      << <<"pos", Str("1,2")>> >>,
      << <<"pos", Arr(<<>>)>> >>,
      << <<"pos", Arr(<< Num(1) >>)>> >>,
      << <<"pos", Arr(<< Num(1), Num(2) >>)>> >>,
      << <<"pos", Arr(<< Num(1), Num(2), Num(3) >>)>> >> }

\* the data App's telemetry handler can be given
TelemetryInputs ==
    { Obj(f \o p) : f \in UNION { KeyOptions(KeyPairs[k][1], KeyPairs[k][2]) : k \in DOMAIN KeyPairs },
                    p \in PosOptions }
    \cup { Undefined, JsNull }

\* the speed controls: the `type` App commits, the numbers a preset or any
\* caller commits, and the texts the number field can hold at SET
SpeedTypes == {"LSPD", "ROLLERSPD"}
SpeedValues == {0 - 1, 0, 100, 255, 256}
SpeedTexts == {"", "-5", "0", "140", "256", "12.7", "1e3"}

\* one payload for each branch of the 'message' handler, and one telemetry value
BranchPayloads ==
    { Envelope("telemetry", Obj(<< <<"us", Num(12)>> >>)),
      Envelope("ack", Obj(<< <<"ok", Bool(TRUE)>> >>)),
      Envelope("log", Str("hi")),
      Envelope("status", Undefined),
      JsNull,
      Str(JSONtext(Envelope("ack", Obj(<< <<"ok", Bool(TRUE)>> >>)))),
      Str("not json{") }

BranchData == { Obj(<< <<"us", Num(12)>> >>) }

\* JSON.parse on the texts of the model: <<"ok", v>> when the text is the JSON
\* text of the value v, <<"SyntaxError">> when it is the text of no value.
ParseTable ==
    [ s \in { p[2] : p \in TextPayloads } |->
        IF \E v \in StructuredPayloads : JSONtext(v) = s
        THEN <<"ok", CHOOSE v \in StructuredPayloads : JSONtext(v) = s>>
        ELSE <<"SyntaxError">> ]

JSONparse(s) == ParseTable[s]

\* outcomes of the fallback request
ResponseTexts == {"OK", "busy"}
ErrorMessages == {"timeout", "Failed to fetch"}

(***************************************************************************)
(* Bounds and program constants.                                           *)
(***************************************************************************)
MaxInFlight == 1             \* sendCmd calls awaiting their fallback request
MaxConnects == 2             \* connect() calls, where it is called again
MaxTimers == 3               \* timers set by startHold, over the whole run
MaxPending == 2              \* the same, where calls are made while others wait
MaxAdded == 104             \* log entries added, over the whole run
reconnectionAttempts == 10   \* option passed to io()
logLimit == 100              \* addLog: .slice(0, 100)
holdPeriod == 250            \* startHold: setInterval(..., 250)

\* callback slots: Null, or the handler assigned to the slot
Null == "null"
Handlers == {"App"}
\* the same with a second handler, for a slot that is assigned again
Subscribers == {"App", "Other"}

HTTP_URL == "http://ROBOT_HOST:ROBOT_PORT/cmd"

(***************************************************************************)
(* State.                                                                  *)
(***************************************************************************)
VARIABLES
    socket,           \* RobotApi.socket: 0 for null, else the index in sockets
    sockets,          \* every Socket made by io(): [status, attempts]
    onTelemetry,      \* the four callback slots of RobotApi
    onLog,
    onAck,
    onConnectChange,
    connected,        \* App: const [connected, setConnected] = useState(false)
    logs,             \* App: const [logs, setLogs] = useState([]), newest first
    telemetry,        \* App: const [telemetry, setTelemetry] = useState({...})
    holdInterval,     \* App: holdInterval.current, 0 for null, else a timer id
    timers,           \* window: the interval timers that are set, [id, cmd, delay]
    nextTimer,        \* window: the id the next setInterval returns
    inflight,         \* sendCmd calls suspended at an await: the call, and
                      \* whether the channel was connected when it was made
    last,             \* the task that ran in the last step
    out,              \* what that task did, in order
    ret               \* <<call>> when that task completed a sendCmd call

vars == <<socket, sockets, onTelemetry, onLog, onAck, onConnectChange,
          connected, logs, telemetry, holdInterval, timers, nextTimer,
          inflight, last, out, ret>>

slots == <<onTelemetry, onLog, onAck, onConnectChange>>

\* the state App keeps through setLogs and setTelemetry.  The handlers App puts
\* in the slots only queue an updater (setLogs(prev => ...)); React runs the
\* updaters later, in the order they were queued: those are the actions
\* AddLog and SetTelemetry, and no task of RobotApi changes this state.
ui == <<logs, telemetry>>

\* the hold-to-move timer of App: only startHold and stopHold change it
hold == <<holdInterval, timers, nextTimer>>

(***************************************************************************)
(* Effects of a task, as entries of `out`.                                 *)
(***************************************************************************)
\* a callback slot is called with arg; nothing is called when the slot is Null
Notify(cb, slot, arg) == <<cb, slot, arg>>
\* socket.emit(ev, payload) on socket i
Emit(i, ev, payload) == <<"emit", i, ev, payload>>
\* fetch(url, {method, headers: {'Content-Type': ctype}, body})
Fetch(url, method, ctype, body) == <<"fetch", url, method, ctype, body>>
\* an exception leaves the task
Throw(name) == <<"throw", name>>

Kind(e) == e[1]
Only(fx, kind) == SelectSeq(fx, LAMBDA e : Kind(e) = kind)
Count(fx, kind) == Len(Only(fx, kind))


(***************************************************************************)
(* RobotApi.                                                               *)
(***************************************************************************)
\* variant: the slot is called without the test, which throws when it is null
log_Unchecked(slot, type, msg) ==
    IF slot = Null THEN << Throw("TypeError") >> ELSE << Notify("onLog", slot, msg) >>

\* private log(type, msg): passes msg, and only msg, to the log slot
log(slot, type, msg) == << Notify("onLog", slot, msg) >>

\* variant: only the handle is tested, not its connected flag
SocketConnected_HandleOnly(sock, socks) == sock # 0

\* this.socket && this.socket.connected
SocketConnected(sock, socks) == sock # 0 /\ socks[sock].status = "connected"

\* variant: the connect is logged but not reported to the subscriber
connectHandler_LogOnly(cc, lg) == log(lg, "SYS", "WebSocket Connected")

\* socket.on('connect', ...)
connectHandler(cc, lg) ==
    << Notify("onConnectChange", cc, TRUE) >> \o log(lg, "SYS", "WebSocket Connected")

\* variant: the disconnect is logged but not reported to the subscriber
disconnectHandler_LogOnly(cc, lg) == log(lg, "SYS", "WebSocket Disconnected")

\* socket.on('disconnect', ...)
disconnectHandler(cc, lg) ==
    << Notify("onConnectChange", cc, FALSE) >> \o log(lg, "SYS", "WebSocket Disconnected")

\* obj.type === t
TypeIs(obj, t) ==
    LET ty == Get(obj, "type") IN TypeOf(ty) = "string" /\ ty[2] = t

\* variant: the telemetry branch passes the envelope on, not its data
dispatch_WholeEnvelope(obj, tel, ack, lg) ==
    IF ReadThrows(obj) THEN << Throw("TypeError") >>
    ELSE IF TypeIs(obj, "telemetry") THEN
        << Notify("onTelemetry", tel, obj) >>
    ELSE IF TypeIs(obj, "ack") THEN
        << Notify("onAck", ack, JSONstringify(Get(obj, "data"))) >>
        \o log(lg, "RX", "ACK: " \o TemplateString(JSONstringify(Get(obj, "data"))))
    ELSE IF TypeIs(obj, "log") THEN
        log(lg, "RX", "LOG: " \o TemplateString(Get(obj, "data")))
    ELSE
        log(lg, "RX", "MSG: " \o TemplateString(JSONstringify(obj)))

\* variant: the acknowledgement slot is given the data itself, not its JSON text
dispatch_AckObject(obj, tel, ack, lg) ==
    IF ReadThrows(obj) THEN << Throw("TypeError") >>
    ELSE IF TypeIs(obj, "telemetry") THEN
        << Notify("onTelemetry", tel, Get(obj, "data")) >>
    ELSE IF TypeIs(obj, "ack") THEN
        << Notify("onAck", ack, Get(obj, "data")) >>
        \o log(lg, "RX", "ACK: " \o TemplateString(JSONstringify(Get(obj, "data"))))
    ELSE IF TypeIs(obj, "log") THEN
        log(lg, "RX", "LOG: " \o TemplateString(Get(obj, "data")))
    ELSE
        log(lg, "RX", "MSG: " \o TemplateString(JSONstringify(obj)))

\* the classification of a parsed payload
dispatch(obj, tel, ack, lg) ==
    IF ReadThrows(obj) THEN << Throw("TypeError") >>
    ELSE IF TypeIs(obj, "telemetry") THEN
        << Notify("onTelemetry", tel, Get(obj, "data")) >>
    ELSE IF TypeIs(obj, "ack") THEN
        << Notify("onAck", ack, JSONstringify(Get(obj, "data"))) >>
        \o log(lg, "RX", "ACK: " \o TemplateString(JSONstringify(Get(obj, "data"))))
    ELSE IF TypeIs(obj, "log") THEN
        log(lg, "RX", "LOG: " \o TemplateString(Get(obj, "data")))
    ELSE
        log(lg, "RX", "MSG: " \o TemplateString(JSONstringify(obj)))

\* socket.on('message', ...)
messageHandler(payload, tel, ack, lg) ==
    IF TypeOf(payload) = "string"
    THEN LET parsed == JSONparse(payload[2])
         IN  IF parsed[1] = "ok"
             THEN dispatch(parsed[2], tel, ack, lg)
             ELSE log(lg, "RX", payload[2])
    ELSE dispatch(payload, tel, ack, lg)

\* socket.on('telemetry', ...)
telemetryHandler(t, tel) == << Notify("onTelemetry", tel, t) >>

\* variant: the command is emitted bare, not wrapped in {cmd}
sendCmdStart_BareCmd(cmd, sock, socks, lg) ==
    IF sock # 0 /\ socks[sock].status = "connected"
    THEN [ cmd |-> cmd, pc |-> "done", settled |-> "fulfilled",
           fx |-> << Emit(sock, "cmd", Str(cmd)) >> \o log(lg, "TX", "WS: " \o cmd) ]
    ELSE [ cmd |-> cmd, pc |-> "fetch", settled |-> "pending",
           fx |-> log(lg, "TX", "HTTP: " \o cmd \o " (Fallback)")
                  \o << Fetch(HTTP_URL, "POST", "application/json",
                              JSONstringify(Obj(<< <<"c", Str(cmd)>> >>))[2]) >> ]

\* variant: on the fallback the request is issued first and logged after
sendCmdStart_FetchFirst(cmd, sock, socks, lg) ==
    IF SocketConnected(sock, socks)
    THEN [ cmd |-> cmd, pc |-> "done", settled |-> "fulfilled",
           fx |-> << Emit(sock, "cmd", Obj(<< <<"cmd", Str(cmd)>> >>)) >>
                  \o log(lg, "TX", "WS: " \o cmd) ]
    ELSE [ cmd |-> cmd, pc |-> "fetch", settled |-> "pending",
           fx |-> << Fetch(HTTP_URL, "POST", "application/json",
                           JSONstringify(Obj(<< <<"c", Str(cmd)>> >>))[2]) >>
                  \o log(lg, "TX", "HTTP: " \o cmd \o " (Fallback)") ]

\* sendCmd up to its first await, or to its return on the persistent channel
sendCmdStart(cmd, sock, socks, lg) ==
    IF SocketConnected(sock, socks)
    THEN [ cmd |-> cmd, pc |-> "done", settled |-> "fulfilled",
           fx |-> << Emit(sock, "cmd", Obj(<< <<"cmd", Str(cmd)>> >>)) >>
                  \o log(lg, "TX", "WS: " \o cmd) ]
    ELSE [ cmd |-> cmd, pc |-> "fetch", settled |-> "pending",
           fx |-> log(lg, "TX", "HTTP: " \o cmd \o " (Fallback)")
                  \o << Fetch(HTTP_URL, "POST", "application/json",
                              JSONstringify(Obj(<< <<"c", Str(cmd)>> >>))[2]) >> ]

\* await fetch(...) is fulfilled: the call goes on to await res.text()
sendCmdResponse(call) == [call EXCEPT !.pc = "text"]

\* variant: res.text() is not awaited, so the promise itself is logged
sendCmdText_NoAwait(call, t, lg) ==
    [call EXCEPT !.pc = "done", !.settled = "fulfilled",
                 !.fx = @ \o log(lg, "RX", "HTTP Resp: " \o "[object Promise]")]

\* await res.text() is fulfilled with t
sendCmdText(call, t, lg) ==
    [call EXCEPT !.pc = "done", !.settled = "fulfilled",
                 !.fx = @ \o log(lg, "RX", "HTTP Resp: " \o t)]

\* variant: no catch block, the rejection reaches the caller
sendCmdCatch_Rethrow(call, m, lg) ==
    [call EXCEPT !.pc = "done", !.settled = "rejected"]

\* variant: the catch block logs and sends the request once more
sendCmdCatch_Retry(call, m, lg) ==
    [call EXCEPT !.pc = "done", !.settled = "fulfilled",
                 !.fx = @ \o log(lg, "SYS", "HTTP Send Failed: " \o m)
                          \o << Fetch(HTTP_URL, "POST", "application/json",
                                      JSONstringify(Obj(<< <<"c", Str(call.cmd)>> >>))[2]) >>]

\* either await is rejected with an error whose message is m: the catch block
sendCmdCatch(call, m, lg) ==
    [call EXCEPT !.pc = "done", !.settled = "fulfilled",
                 !.fx = @ \o log(lg, "SYS", "HTTP Send Failed: " \o m)]

(***************************************************************************)
(* App: the handlers it puts in the slots.                                 *)
(***************************************************************************)
\* msg.startsWith(p)
startsWith(msg, p) == Len(msg) >= Len(p) /\ SubSeq(msg, 1, Len(p)) = p

\* api.onLog: the category App gives to a log line
logType(msg) ==
    IF startsWith(msg, "TX") THEN "tx" ELSE IF startsWith(msg, "RX") THEN "rx" ELSE "sys"

\* useState<TelemetryData>({...}): the snapshot App starts with
initialTelemetry ==
    [us |-> JsNull, temp |-> JsNull, pressure |-> JsNull,
     state |-> Str("---"), pos |-> JsNull, dir |-> Str("---")]

\* /^\s*/ removed from the front of s
RECURSIVE dropSpaces(_)
dropSpaces(s) ==
    IF s # "" /\ SubSeq(s, 1, 1) \in {" ", "\t", "\n", "\r"}
    THEN dropSpaces(SubSeq(s, 2, Len(s)))
    ELSE s

\* msg.replace(/^(TX|RX|SYS):?\s*/, '')
stripPrefix(msg) ==
    LET n == IF startsWith(msg, "TX") \/ startsWith(msg, "RX") THEN 2
             ELSE IF startsWith(msg, "SYS") THEN 3 ELSE 0
        rest == SubSeq(msg, n + 1, Len(msg))
    IN  IF n = 0 THEN msg
        ELSE dropSpaces(IF startsWith(rest, ":") THEN SubSeq(rest, 2, Len(rest)) ELSE rest)

\* api.onLog = (msg) => ...: the type and message App passes to addLog
onLogHandler(msg) == [type |-> logType(msg), message |-> stripPrefix(msg)]

\* the log lines App is given, in rotation (the list is then a function of
\* the number of entries added)
LogLines == << "WebSocket Connected", "WS: F", "HTTP Resp: OK", "TX oops" >>

\* variant: the list is cut before the new entry is put in front
addLog_SliceFirst(prev, entry) ==
    << entry >> \o SubSeq(prev, 1, IF Len(prev) < logLimit THEN Len(prev) ELSE logLimit)

\* setLogs(prev => [entry, ...prev].slice(0, 100))
addLog(prev, entry) ==
    LET all == << entry >> \o prev
    IN  SubSeq(all, 1, IF Len(all) < logLimit THEN Len(all) ELSE logLimit)

\* a ?? b
Coalesce(a, b) == IF TypeOf(a) \in {"undefined", "null"} THEN b ELSE a

\* variant: the short-form key is looked at first
normalizeTelemetry_ShortFirst(d) ==
    [us |-> Coalesce(Get(d, "US"), Get(d, "us")),
     temp |-> Coalesce(Get(d, "T"), Get(d, "temp")),
     pressure |-> Coalesce(Get(d, "P"), Get(d, "pressure")),
     state |-> Coalesce(Get(d, "ST"), Get(d, "state")),
     pos |-> IF TypeOf(Get(d, "pos")) = "array" THEN Get(d, "pos") ELSE JsNull,
     dir |-> Coalesce(Get(d, "DIR"), Get(d, "dir"))]

\* normalizeTelemetry(d), for a d whose properties can be read
normalizeTelemetry(d) ==
    [us |-> Coalesce(Get(d, "us"), Get(d, "US")),
     temp |-> Coalesce(Get(d, "temp"), Get(d, "T")),
     pressure |-> Coalesce(Get(d, "pressure"), Get(d, "P")),
     state |-> Coalesce(Get(d, "state"), Get(d, "ST")),
     pos |-> IF TypeOf(Get(d, "pos")) = "array" THEN Get(d, "pos") ELSE JsNull,
     dir |-> Coalesce(Get(d, "dir"), Get(d, "DIR"))]

\* { ...prev, ...part }: every key of part replaces that of prev, also when
\* its value is undefined
spread(prev, part) ==
    [k \in DOMAIN prev \cup DOMAIN part |-> IF k \in DOMAIN part THEN part[k] ELSE prev[k]]

\* NaN, the number that parseInt gives for a text with no digits
NaN == <<"NaN">>

RECURSIVE parseDigits(_, _, _)
\* the decimal digits s begins with, as a number after acc
parseDigits(s, acc, seen) ==
    LET digits == <<"0", "1", "2", "3", "4", "5", "6", "7", "8", "9">>
    IN  IF s # "" /\ \E d \in 1..10 : digits[d] = SubSeq(s, 1, 1)
        THEN parseDigits(SubSeq(s, 2, Len(s)),
                         acc * 10 + (CHOOSE d \in 1..10 : digits[d] = SubSeq(s, 1, 1)) - 1,
                         TRUE)
        ELSE IF seen THEN Num(acc) ELSE NaN

\* parseInt(s): leading blanks, a sign, then digits; the rest is ignored
parseInt(s) ==
    LET t == dropSpaces(s)
        signed == startsWith(t, "-") \/ startsWith(t, "+")
        n == parseDigits(IF signed THEN SubSeq(t, 2, Len(t)) ELSE t, 0, FALSE)
    IN  IF n = NaN THEN NaN
        ELSE IF startsWith(t, "-") THEN Num(0 - n[2]) ELSE n

\* Math.floor(val) of an integer: commitSpeed is only given integers (the
\* result of parseInt, or a preset)
MathFloor(val) == val

\* Math.min(255, Math.max(0, Math.floor(val)))
safeVal(val) ==
    LET lo == IF MathFloor(val) > 0 THEN MathFloor(val) ELSE 0
    IN  IF lo < 255 THEN lo ELSE 255

\* variant: the value is sent as it was given
commitSpeedCmds_Unclamped(type, val) ==
    IF type = "ROLLERSPD"
    THEN << type \o " " \o ToString(val) >>
    ELSE << "LSPD " \o ToString(val), "RSPD " \o ToString(val) >>

\* commitSpeed(type, val): the commands it sends, in order
commitSpeedCmds(type, val) ==
    IF type = "ROLLERSPD"
    THEN << type \o " " \o ToString(safeVal(val)) >>
    ELSE << "LSPD " \o ToString(safeVal(val)), "RSPD " \o ToString(safeVal(val)) >>

\* SpeedControlInput.handleSubmit: the number given to onCommit for the text
handleSubmitValue(localVal) ==
    LET v == parseInt(localVal)
        n == IF v = NaN THEN 0 ELSE v[2]
    IN  IF n < 0 THEN 0 ELSE IF n > 255 THEN 255 ELSE n

\* api.onConnectChange = setConnected: the flag after the notifications of fx
setConnected(fx, cur) ==
    LET mine == SelectSeq(fx, LAMBDA e : Kind(e) = "onConnectChange" /\ e[2] = "App")
    IN  IF mine = <<>> THEN cur ELSE mine[Len(mine)][3]


(***************************************************************************)
(* The channel made by io(WS_URL, {transports, timeout, reconnectionAttempts}).*)
(* status: "opening" while a connection attempt is pending, `attempts`     *)
(* counting the reconnection attempts started since the last open;         *)
(* "connected"; "failed" once the reconnection budget is used up; "closed" *)
(* after the server closed the socket (no reconnection follows that).      *)
(***************************************************************************)
io == [status |-> "opening", attempts |-> 0]

\* the status of the channel behind the handle, "none" without a handle
Seen(sock, socks) == IF sock = 0 THEN "none" ELSE socks[sock].status

Remove(seq, k) == SubSeq(seq, 1, k - 1) \o SubSeq(seq, k + 1, Len(seq))

\* the part of fx that was added to it after old
Added(old, fx) == SubSeq(fx, Len(old) + 1, Len(fx))

Init ==
    /\ socket = 0
    /\ sockets = <<>>
    /\ onTelemetry = Null
    /\ onLog = Null
    /\ onAck = Null
    /\ onConnectChange = Null
    /\ connected = FALSE
    /\ logs = <<>>
    /\ telemetry = initialTelemetry
    /\ holdInterval = 0
    /\ timers = {}
    /\ nextTimer = 1
    /\ inflight = <<>>
    /\ last = <<"new RobotApi">>
    /\ out = <<>>
    /\ ret = <<>>

\* api.connect()
connect ==
    /\ sockets' = Append(sockets, io)
    /\ socket' = Len(sockets) + 1
    /\ last' = <<"connect">>
    /\ out' = <<>>
    /\ ret' = <<>>
    /\ UNCHANGED <<ui, hold, slots, connected, inflight>>

\* variant: a slot that holds a handler keeps it (first writer wins)
SetOnLog_KeepFirst(h) ==
    /\ onLog' = IF onLog = Null THEN h ELSE onLog
    /\ last' = <<"set", "onLog", h>>
    /\ out' = <<>>
    /\ ret' = <<>>
    /\ UNCHANGED <<ui, hold, socket, sockets, onTelemetry, onAck, onConnectChange, connected, inflight>>

\* api.onTelemetry = h, and the like
SetOnTelemetry(h) ==
    /\ onTelemetry' = h
    /\ last' = <<"set", "onTelemetry", h>>
    /\ out' = <<>>
    /\ ret' = <<>>
    /\ UNCHANGED <<ui, hold, socket, sockets, onLog, onAck, onConnectChange, connected, inflight>>

SetOnLog(h) ==
    /\ onLog' = h
    /\ last' = <<"set", "onLog", h>>
    /\ out' = <<>>
    /\ ret' = <<>>
    /\ UNCHANGED <<ui, hold, socket, sockets, onTelemetry, onAck, onConnectChange, connected, inflight>>

SetOnAck(h) ==
    /\ onAck' = h
    /\ last' = <<"set", "onAck", h>>
    /\ out' = <<>>
    /\ ret' = <<>>
    /\ UNCHANGED <<ui, hold, socket, sockets, onTelemetry, onLog, onConnectChange, connected, inflight>>

SetOnConnectChange(h) ==
    /\ onConnectChange' = h
    /\ last' = <<"set", "onConnectChange", h>>
    /\ out' = <<>>
    /\ ret' = <<>>
    /\ UNCHANGED <<ui, hold, socket, sockets, onTelemetry, onLog, onAck, connected, inflight>>

\* variant: the channel goes on trying after its budget is used up
OnConnect_AfterGiveUp(i) ==
    /\ sockets[i].status \in {"opening", "failed"}
    /\ sockets' = [sockets EXCEPT ![i] = [status |-> "connected", attempts |-> 0]]
    /\ last' = <<"on:connect", i>>
    /\ out' = connectHandler(onConnectChange, onLog)
    /\ connected' = setConnected(out', connected)
    /\ ret' = <<>>
    /\ UNCHANGED <<ui, hold, socket, slots, inflight>>

\* the handshake of socket i succeeds: its 'connect' event
OnConnect(i) ==
    /\ sockets[i].status = "opening"
    /\ sockets' = [sockets EXCEPT ![i] = [status |-> "connected", attempts |-> 0]]
    /\ last' = <<"on:connect", i>>
    /\ out' = connectHandler(onConnectChange, onLog)
    /\ connected' = setConnected(out', connected)
    /\ ret' = <<>>
    /\ UNCHANGED <<ui, hold, socket, slots, inflight>>

\* socket i loses its connection: its 'disconnect' event.  After a loss of
\* the transport the first reconnection attempt is started; after a close
\* by the server none is.
OnDisconnect(i, reason) ==
    /\ sockets[i].status = "connected"
    /\ sockets' = [sockets EXCEPT ![i] =
           IF reason = "io server disconnect"
           THEN [status |-> "closed", attempts |-> 0]
           ELSE [status |-> "opening", attempts |-> 1]]
    /\ last' = <<"on:disconnect", i, reason>>
    /\ out' = disconnectHandler(onConnectChange, onLog)
    /\ connected' = setConnected(out', connected)
    /\ ret' = <<>>
    /\ UNCHANGED <<ui, hold, socket, slots, inflight>>

\* a connection attempt of socket i fails (or times out): no handler of
\* RobotApi is registered for it
OpenError(i) ==
    /\ sockets[i].status = "opening"
    /\ \/ /\ sockets[i].attempts < reconnectionAttempts
          /\ sockets' = [sockets EXCEPT ![i].attempts = @ + 1]
       \/ /\ sockets[i].attempts >= reconnectionAttempts
          /\ sockets' = [sockets EXCEPT ![i] = [status |-> "failed", attempts |-> 0]]
    /\ last' = <<"connect_error", i>>
    /\ out' = <<>>
    /\ ret' = <<>>
    /\ UNCHANGED <<ui, hold, socket, slots, connected, inflight>>

\* a 'message' event arrives on socket i
OnMessage(i, payload) ==
    /\ sockets[i].status = "connected"
    /\ last' = <<"on:message", i, payload>>
    /\ out' = messageHandler(payload, onTelemetry, onAck, onLog)
    /\ connected' = setConnected(out', connected)
    /\ ret' = <<>>
    /\ UNCHANGED <<ui, hold, socket, sockets, slots, inflight>>

\* a 'telemetry' event arrives on socket i
OnTelemetry(i, t) ==
    /\ sockets[i].status = "connected"
    /\ last' = <<"on:telemetry", i, t>>
    /\ out' = telemetryHandler(t, onTelemetry)
    /\ connected' = setConnected(out', connected)
    /\ ret' = <<>>
    /\ UNCHANGED <<ui, hold, socket, sockets, slots, inflight>>

\* whether a sendCmd made now keeps the suspended calls within cap: it is
\* suspended only when it takes the fallback
Room(cap) == SocketConnected(socket, sockets) \/ Len(inflight) < cap

\* variant: a call waits for the calls before it (one request at a time)
SendCmd_OneAtATime(cmd) ==
    LET call == sendCmdStart(cmd, socket, sockets, onLog)
        rec  == [call |-> call, up |-> Seen(socket, sockets) = "connected"]
    IN  /\ inflight = <<>>
        /\ inflight' = IF call.pc = "done" THEN inflight ELSE Append(inflight, rec)
        /\ ret' = IF call.pc = "done" THEN <<rec>> ELSE <<>>
        /\ last' = <<"sendCmd", cmd>>
        /\ out' = call.fx
        /\ connected' = setConnected(out', connected)
        /\ UNCHANGED <<ui, hold, socket, sockets, slots>>

\* api.sendCmd(cmd), called by the task `task`
sendCmd(task, cmd) ==
    LET call == sendCmdStart(cmd, socket, sockets, onLog)
        rec  == [call |-> call, up |-> Seen(socket, sockets) = "connected"]
    IN  /\ inflight' = IF call.pc = "done" THEN inflight ELSE Append(inflight, rec)
        /\ ret' = IF call.pc = "done" THEN <<rec>> ELSE <<>>
        /\ last' = task
        /\ out' = call.fx
        /\ connected' = setConnected(out', connected)
        /\ UNCHANGED <<ui, socket, sockets, slots>>

\* api.sendCmd(cmd), on its own
SendCmd(cmd) == sendCmd(<<"sendCmd", cmd>>, cmd) /\ UNCHANGED hold

\* variant: the timer in the ref is overwritten without being cleared
startHold_NoClear(cmd) ==
    /\ sendCmd(<<"startHold", cmd>>, cmd)
    /\ timers' = timers \cup { [id |-> nextTimer, cmd |-> cmd, delay |-> holdPeriod] }
    /\ holdInterval' = nextTimer
    /\ nextTimer' = nextTimer + 1

\* startHold(cmd): send(cmd); clearInterval of the timer in the ref if there
\* is one; holdInterval.current = setInterval(() => send(cmd), 250)
startHold(cmd) ==
    /\ sendCmd(<<"startHold", cmd>>, cmd)
    /\ timers' = { t \in timers : holdInterval = 0 \/ t.id # holdInterval }
                 \cup { [id |-> nextTimer, cmd |-> cmd, delay |-> holdPeriod] }
    /\ holdInterval' = nextTimer
    /\ nextTimer' = nextTimer + 1

\* stopHold(): clearInterval of the timer in the ref if there is one, and
\* the ref is set to null
stopHold ==
    /\ timers' = { t \in timers : holdInterval = 0 \/ t.id # holdInterval }
    /\ holdInterval' = 0
    /\ last' = <<"stopHold">>
    /\ out' = <<>>
    /\ ret' = <<>>
    /\ UNCHANGED <<ui, nextTimer, socket, sockets, slots, connected, inflight>>

\* the timer id fires: () => send(cmd)
holdTick(id) ==
    \E t \in timers :
        /\ t.id = id
        /\ sendCmd(<<"interval", id, t.cmd>>, t.cmd)
        /\ UNCHANGED hold

\* the fallback request of call k is answered
FetchFulfilled(k) ==
    /\ inflight[k].call.pc = "fetch"
    /\ inflight' = [inflight EXCEPT ![k].call = sendCmdResponse(@)]
    /\ last' = <<"fetch:fulfilled">>
    /\ out' = Added(inflight[k].call.fx, inflight'[k].call.fx)
    /\ connected' = setConnected(out', connected)
    /\ ret' = <<>>
    /\ UNCHANGED <<ui, hold, socket, sockets, slots>>

\* the body of the response of call k is read as text t
TextFulfilled(k, t) ==
    LET call == sendCmdText(inflight[k].call, t, onLog)
    IN  /\ inflight[k].call.pc = "text"
        /\ inflight' = Remove(inflight, k)
        /\ ret' = << [inflight[k] EXCEPT !.call = call] >>
        /\ last' = <<"text:fulfilled", t>>
        /\ out' = Added(inflight[k].call.fx, call.fx)
        /\ connected' = setConnected(out', connected)
        /\ UNCHANGED <<ui, hold, socket, sockets, slots>>

\* variant: the catch block also reports the connection as lost
AwaitRejected_MarkDown(k, m) ==
    LET call == sendCmdCatch(inflight[k].call, m, onLog)
    IN  /\ inflight' = Remove(inflight, k)
        /\ ret' = << [inflight[k] EXCEPT !.call = call] >>
        /\ last' = <<inflight[k].call.pc \o ":rejected", m>>
        /\ out' = Added(inflight[k].call.fx, call.fx)
                  \o << Notify("onConnectChange", onConnectChange, FALSE) >>
        /\ connected' = setConnected(out', connected)
        /\ UNCHANGED <<ui, hold, socket, sockets, slots>>

\* the await at which call k is suspended is rejected with Error(m)
AwaitRejected(k, m) ==
    LET call == sendCmdCatch(inflight[k].call, m, onLog)
    IN  /\ inflight' = Remove(inflight, k)
        /\ ret' = << [inflight[k] EXCEPT !.call = call] >>
        /\ last' = <<inflight[k].call.pc \o ":rejected", m>>
        /\ out' = Added(inflight[k].call.fx, call.fx)
        /\ connected' = setConnected(out', connected)
        /\ UNCHANGED <<ui, hold, socket, sockets, slots>>

\* how many entries were added so far: the id of the newest one
logsAdded == IF logs = <<>> THEN 0 ELSE logs[1].id

\* React runs the updater queued by addLog(type, message).  id stands for
\* the token and the time of day the entry is made with: one per entry.
AddLog(type, message) ==
    /\ logsAdded < MaxAdded
    /\ logs' = addLog(logs, [id |-> logsAdded + 1, type |-> type, message |-> message])
    /\ last' = <<"addLog", type, message>>
    /\ out' = <<>>
    /\ ret' = <<>>
    /\ UNCHANGED <<hold, socket, sockets, slots, connected, telemetry, inflight>>

\* React runs the updater queued by api.onTelemetry(d):
\* prev => ({ ...prev, ...normalizeTelemetry(d) }).  Reading d.us of
\* undefined or null throws, and the state is left as it was.
SetTelemetry(d) ==
    /\ IF ReadThrows(d)
       THEN telemetry' = telemetry /\ out' = << Throw("TypeError") >>
       ELSE telemetry' = spread(telemetry, normalizeTelemetry(d)) /\ out' = <<>>
    /\ last' = <<"setTelemetry", d>>
    /\ ret' = <<>>
    /\ UNCHANGED <<hold, socket, sockets, slots, connected, logs, inflight>>

RECURSIVE AllFx(_)
\* what a run of sendCmd calls did, in order
AllFx(recs) == IF recs = <<>> THEN <<>> ELSE Head(recs).call.fx \o AllFx(Tail(recs))

\* the task `task` calls api.sendCmd for each of cmds, one after the other; each
\* call runs to its return or to its first await before the next is made
sendCmds(task, cmds) ==
    LET recs == [n \in DOMAIN cmds |->
                    [call |-> sendCmdStart(cmds[n], socket, sockets, onLog),
                     up |-> Seen(socket, sockets) = "connected"]]
    IN  /\ inflight' = inflight \o SelectSeq(recs, LAMBDA r : r.call.pc # "done")
        /\ ret' = SelectSeq(recs, LAMBDA r : r.call.pc = "done")
        /\ last' = task
        /\ out' = AllFx(recs)
        /\ connected' = setConnected(out', connected)
        /\ UNCHANGED <<ui, hold, socket, sockets, slots>>

\* commitSpeed(type, val), from a preset button.  setRollerSpeed and
\* setDriveSpeed only change what the speed fields show.
commitSpeed(type, val) ==
    sendCmds(<<"commitSpeed", type, val>>, commitSpeedCmds(type, val))

\* SET or Enter in a speed field that holds the text localVal
handleSubmit(type, localVal) ==
    sendCmds(<<"handleSubmit", type, localVal>>,
             commitSpeedCmds(type, handleSubmitValue(localVal)))

\* The whole client.  App calls api.connect() once, in its mount effect.
Next ==
    \/ (socket = 0 /\ connect)
    \/ \E h \in Handlers \cup {Null} : SetOnTelemetry(h)
    \/ \E h \in Handlers \cup {Null} : SetOnLog(h)
    \/ \E h \in Handlers \cup {Null} : SetOnAck(h)
    \/ \E h \in Handlers \cup {Null} : SetOnConnectChange(h)
    \/ \E i \in DOMAIN sockets : OnConnect(i)
    \/ \E i \in DOMAIN sockets :
           \E reason \in {"transport close", "io server disconnect"} : OnDisconnect(i, reason)
    \/ \E i \in DOMAIN sockets : OpenError(i)
    \/ \E i \in DOMAIN sockets : \E payload \in BranchPayloads : OnMessage(i, payload)
    \/ \E i \in DOMAIN sockets : \E t \in BranchData : OnTelemetry(i, t)
    \/ \E cmd \in Commands : Room(MaxInFlight) /\ SendCmd(cmd)
    \/ \E k \in DOMAIN inflight : FetchFulfilled(k)
    \/ \E k \in DOMAIN inflight : \E t \in ResponseTexts : TextFulfilled(k, t)
    \/ \E k \in DOMAIN inflight : \E m \in ErrorMessages : AwaitRejected(k, m)

Spec == Init /\ [][Next]_vars

\* The inbound side alone: the channel is up (connect() was called and the
\* handshake succeeded, with no handler assigned yet), and from there only
\* handlers are assigned and inbound events arrive, with every payload.
InitInbound ==
    /\ socket = 1
    /\ sockets = << [status |-> "connected", attempts |-> 0] >>
    /\ onTelemetry = Null
    /\ onLog = Null
    /\ onAck = Null
    /\ onConnectChange = Null
    /\ connected = FALSE
    /\ logs = <<>>
    /\ telemetry = initialTelemetry
    /\ holdInterval = 0
    /\ timers = {}
    /\ nextTimer = 1
    /\ inflight = <<>>
    /\ last = <<"on:connect", 1>>
    /\ out = connectHandler(Null, Null)
    /\ ret = <<>>

NextInbound ==
    \/ \E h \in Handlers \cup {Null} : SetOnTelemetry(h)
    \/ \E h \in Handlers \cup {Null} : SetOnLog(h)
    \/ \E h \in Handlers \cup {Null} : SetOnAck(h)
    \/ \E h \in Handlers \cup {Null} : SetOnConnectChange(h)
    \/ \E payload \in Payloads : OnMessage(1, payload)
    \/ \E t \in DataValues : OnTelemetry(1, t)

SpecInbound == InitInbound /\ [][NextInbound]_vars

\* the state SpecInbound starts in is a state of Spec
InboundStart == InitInbound

\* The log list alone: App's handler is given log lines and React runs the
\* updaters it queued, one after the other.
NextLogs ==
    \E line \in { LogLines[(logsAdded % Len(LogLines)) + 1] } :
        AddLog(onLogHandler(line).type, onLogHandler(line).message)

SpecLogs == Init /\ [][NextLogs]_vars

\* The telemetry snapshot alone: App's handler is given data and React runs
\* the updaters it queued, one after the other.
NextTelemetry == \E d \in TelemetryInputs : SetTelemetry(d)

SpecTelemetry == Init /\ [][NextTelemetry]_vars

\* The client as App uses it, with room for a call made while another waits:
\* the mount effect has assigned App's handlers and called connect().
InitHung ==
    /\ socket = 1
    /\ sockets = << io >>
    /\ onTelemetry = "App"
    /\ onLog = "App"
    /\ onAck = Null
    /\ onConnectChange = "App"
    /\ connected = FALSE
    /\ logs = <<>>
    /\ telemetry = initialTelemetry
    /\ holdInterval = 0
    /\ timers = {}
    /\ nextTimer = 1
    /\ inflight = <<>>
    /\ last = <<"connect">>
    /\ out = <<>>
    /\ ret = <<>>

NextHung ==
    \/ OnConnect(1)
    \/ \E reason \in {"transport close", "io server disconnect"} : OnDisconnect(1, reason)
    \/ OpenError(1)
    \/ \E payload \in BranchPayloads : OnMessage(1, payload)
    \/ \E t \in BranchData : OnTelemetry(1, t)
    \/ \E cmd \in Commands : Room(MaxPending) /\ SendCmd(cmd)
    \/ \E k \in DOMAIN inflight : FetchFulfilled(k)
    \/ \E k \in DOMAIN inflight : \E t \in ResponseTexts : TextFulfilled(k, t)
    \/ \E k \in DOMAIN inflight : \E m \in ErrorMessages : AwaitRejected(k, m)

SpecHung == InitHung /\ [][NextHung]_vars

\* The slots alone: App's mount effect has assigned its handlers and called
\* connect(); from there any slot is assigned again, to either handler or to
\* null, while the channel delivers its events.
NextSlots ==
    \/ \E h \in Subscribers \cup {Null} : SetOnTelemetry(h)
    \/ \E h \in Subscribers \cup {Null} : SetOnLog(h)
    \/ \E h \in Subscribers \cup {Null} : SetOnAck(h)
    \/ \E h \in Subscribers \cup {Null} : SetOnConnectChange(h)
    \/ OnConnect(1)
    \/ \E reason \in {"transport close", "io server disconnect"} : OnDisconnect(1, reason)
    \/ OpenError(1)
    \/ \E payload \in BranchPayloads : OnMessage(1, payload)
    \/ \E t \in BranchData : OnTelemetry(1, t)

SpecSlots == InitHung /\ [][NextSlots]_vars

\* The client when connect() is called again: App's mount effect has assigned
\* its handlers, and connect() is then called up to MaxConnects times.  Every
\* Socket made stays in `sockets` with the handlers connect() registered on it.
InitMounted ==
    /\ socket = 0
    /\ sockets = <<>>
    /\ onTelemetry = "App"
    /\ onLog = "App"
    /\ onAck = Null
    /\ onConnectChange = "App"
    /\ connected = FALSE
    /\ logs = <<>>
    /\ telemetry = initialTelemetry
    /\ holdInterval = 0
    /\ timers = {}
    /\ nextTimer = 1
    /\ inflight = <<>>
    /\ last = <<"set", "onTelemetry", "App">>
    /\ out = <<>>
    /\ ret = <<>>

NextReconnect ==
    \/ (Len(sockets) < MaxConnects /\ connect)
    \/ \E i \in DOMAIN sockets : OnConnect(i)
    \/ \E i \in DOMAIN sockets :
           \E reason \in {"transport close", "io server disconnect"} : OnDisconnect(i, reason)
    \/ \E i \in DOMAIN sockets : OpenError(i)
    \/ \E i \in DOMAIN sockets : \E payload \in BranchPayloads : OnMessage(i, payload)
    \/ \E i \in DOMAIN sockets : \E t \in BranchData : OnTelemetry(i, t)
    \/ \E cmd \in Commands : Room(MaxInFlight) /\ SendCmd(cmd)
    \/ \E k \in DOMAIN inflight : FetchFulfilled(k)
    \/ \E k \in DOMAIN inflight : \E t \in ResponseTexts : TextFulfilled(k, t)
    \/ \E k \in DOMAIN inflight : \E m \in ErrorMessages : AwaitRejected(k, m)

SpecReconnect == InitMounted /\ [][NextReconnect]_vars

\* Hold-to-move: App's mount effect has run; the buttons call startHold and
\* stopHold in any order, timers fire while they are set, and the channel
\* comes and goes so that the sends take either path.
NextHold ==
    \/ \E cmd \in Commands : Room(MaxInFlight) /\ nextTimer <= MaxTimers /\ startHold(cmd)
    \/ stopHold
    \/ \E t \in timers : Room(MaxInFlight) /\ holdTick(t.id)
    \/ OnConnect(1)
    \/ \E reason \in {"transport close", "io server disconnect"} : OnDisconnect(1, reason)
    \/ OpenError(1)
    \/ \E k \in DOMAIN inflight : FetchFulfilled(k)
    \/ \E k \in DOMAIN inflight : \E t \in ResponseTexts : TextFulfilled(k, t)
    \/ \E k \in DOMAIN inflight : \E m \in ErrorMessages : AwaitRejected(k, m)

SpecHold == InitHung /\ [][NextHold]_vars

\* whether n more sendCmd calls made now keep the suspended calls within cap
RoomFor(n, cap) == SocketConnected(socket, sockets) \/ Len(inflight) + n <= cap

\* The speed controls: App's mount effect has run; speeds are committed from
\* presets and from the fields while the channel comes and goes, and the
\* fallback requests fail after a while.
NextSpeed ==
    \/ \E type \in SpeedTypes : \E val \in SpeedValues :
           RoomFor(Len(commitSpeedCmds(type, val)), MaxPending) /\ commitSpeed(type, val)
    \/ \E type \in SpeedTypes : \E localVal \in SpeedTexts :
           RoomFor(Len(commitSpeedCmds(type, 0)), MaxPending) /\ handleSubmit(type, localVal)
    \/ OnConnect(1)
    \/ OnDisconnect(1, "transport close")
    \/ \E k \in DOMAIN inflight : AwaitRejected(k, "timeout")

SpecSpeed == InitHung /\ [][NextSpeed]_vars


(***************************************************************************)
(* Properties.                                                             *)
(***************************************************************************)
Step == last[1]
\* the log lines of fx, and those that reached a handler
Logs(fx) == Only(fx, "onLog")
Transmissions(fx) == Count(fx, "emit") + Count(fx, "fetch")
\* the JSON text of {k: "c"} for a command c, written out
OneField(k, c) == "{\"" \o k \o "\":\"" \o c \o "\"}"

\* C1: a sendCmd(c) made while the handle exists and is connected returns at
\* once having emitted exactly one 'cmd' event with payload {cmd: c} on that
\* channel, passed exactly one log line that contains c to the log slot, and
\* issued no fallback request.
C1_PersistentSend ==
    (Step = "sendCmd" /\ Seen(socket, sockets) = "connected") =>
        /\ Len(ret) = 1
        /\ ret[1].call.fx = out
        /\ Count(out, "emit") = 1
        /\ Only(out, "emit")[1] = Emit(socket, "cmd", Obj(<< <<"cmd", Str(last[2])>> >>))
        /\ Count(out, "onLog") = 1
        /\ Logs(out)[1][2] = onLog
        /\ Contains(Logs(out)[1][3], last[2])
        /\ Count(out, "fetch") = 0

C1_Witness ==
    /\ Step = "sendCmd"
    /\ Seen(socket, sockets) = "connected"
    /\ onLog = "App"
    /\ Count(out, "emit") = 1

\* C2: a sendCmd(c) made while the handle is absent or not connected issues
\* exactly one fallback request whose body is {"c": c} and emits nothing; it
\* passes one log line marked (Fallback) and containing c to the log slot, and
\* when the response is read as text t, exactly one further log line, which
\* contains t.
C2_FallbackSend ==
    /\ (Step = "sendCmd" /\ Seen(socket, sockets) # "connected") =>
        /\ ret = <<>>
        /\ Len(inflight) >= 1
        /\ inflight[Len(inflight)].call.fx = out
        /\ Count(out, "emit") = 0
        /\ Count(out, "fetch") = 1
        /\ Only(out, "fetch")[1] =
               Fetch(HTTP_URL, "POST", "application/json", OneField("c", last[2]))
        /\ Count(out, "onLog") = 1
        /\ Logs(out)[1][2] = onLog
        /\ Contains(Logs(out)[1][3], "Fallback")
        /\ Contains(Logs(out)[1][3], last[2])
    /\ (Step = "text:fulfilled") =>
        /\ Len(ret) = 1
        /\ LET fx == ret[1].call.fx
           IN  /\ Count(fx, "emit") = 0
               /\ Count(fx, "fetch") = 1
               /\ Only(fx, "fetch")[1][5] = OneField("c", ret[1].call.cmd)
               /\ Count(fx, "onLog") = 2
               /\ Contains(Logs(fx)[1][3], "Fallback")
               /\ Contains(Logs(fx)[1][3], ret[1].call.cmd)
               /\ out = << Logs(fx)[2] >>
               /\ Logs(fx)[2][2] = onLog
               /\ Contains(Logs(fx)[2][3], last[2])

C2_Witness ==
    /\ Step = "text:fulfilled"
    /\ last[2] = "OK"
    /\ Len(ret) = 1
    /\ ret[1].call.cmd = "STOP"
    /\ \A i \in 1..Len(Logs(ret[1].call.fx)) : Logs(ret[1].call.fx)[i][2] = "App"

\* C3: when the fallback request of a sendCmd call fails with an error whose
\* message is m, exactly one log line is passed to the log slot, it contains m
\* and App files it under sys, and the call has no response line; every
\* sendCmd call that completes, on any path, is fulfilled, and no step of
\* sendCmd lets an exception out.
C3_FailureIsLogged ==
    /\ (Step \in {"fetch:rejected", "text:rejected"}) =>
        /\ Len(ret) = 1
        /\ Len(out) = 1
        /\ Kind(out[1]) = "onLog"
        /\ out[1][2] = onLog
        /\ Contains(out[1][3], last[2])
        /\ logType(out[1][3]) = "sys"
        /\ LET lines == Logs(ret[1].call.fx)
           IN  /\ Len(lines) = 2
               /\ lines[2] = out[1]
               /\ \A i \in 1..Len(lines) : ~Contains(lines[i][3], "HTTP Resp")
    /\ \A i \in 1..Len(ret) : ret[i].call.settled = "fulfilled" /\ ret[i].call.pc = "done"
    /\ (Step \in {"sendCmd", "fetch:fulfilled", "text:fulfilled",
                  "fetch:rejected", "text:rejected"}) => Count(out, "throw") = 0

C3_Witness ==
    /\ Step = "fetch:rejected"
    /\ last[2] = "timeout"
    /\ onLog = "App"
    /\ Len(ret) = 1

\* C4: a sendCmd call makes exactly one transmission, at the moment it is
\* called: one emit or one fetch, never both; no later step (a failed or
\* answered request, a connect event while the request is in flight) transmits.
C4_OneAttempt ==
    /\ (Step = "sendCmd") => Transmissions(out) = 1
    /\ (Step # "sendCmd") => Transmissions(out) = 0
    /\ \A i \in 1..Len(ret) : Transmissions(ret[i].call.fx) = 1
    /\ \A k \in 1..Len(inflight) : Transmissions(inflight[k].call.fx) = 1

C4_Witness ==
    /\ Step = "fetch:rejected"
    /\ Len(ret) = 1
    /\ ~ret[1].up
    /\ Seen(socket, sockets) = "connected"

\* C5: every sendCmd call uses the persistent channel if and only if the handle
\* exists and is connected at the moment of that call, whatever earlier calls
\* did and whatever the channel did before or does after.
C5_FreshChoice ==
    /\ (Step = "sendCmd") =>
        /\ (Count(out, "emit") = 1) <=> (Seen(socket, sockets) = "connected")
        /\ (Count(out, "fetch") = 1) <=> (Seen(socket, sockets) # "connected")
    /\ \A i \in 1..Len(ret) :
        (Count(ret[i].call.fx, "emit") = 1) <=> ret[i].up
    /\ \A k \in 1..Len(inflight) :
        /\ ~inflight[k].up
        /\ Count(inflight[k].call.fx, "fetch") = 1

\* a call goes over the persistent channel while an earlier call, made when
\* the channel was down, still awaits its fallback request
C5_Witness ==
    /\ Step = "sendCmd"
    /\ Count(out, "emit") = 1
    /\ Len(inflight) = 1


\* C6: connectivity starts as disconnected; the 'connect' event of a channel
\* (and no other step) reports true to the connectivity slot and then passes
\* one log line, which App files under sys; the 'disconnect' event (and no
\* other step) reports false and then passes one such line; a channel becomes
\* connected or stops being connected only in those two steps, and a failed
\* connection attempt reports nothing.
C6_Reported ==
    /\ (Step = "new RobotApi") => (~connected /\ Seen(socket, sockets) # "connected")
    /\ (Step \in {"on:connect", "on:disconnect"}) =>
        /\ Len(out) = 2
        /\ out[1] = Notify("onConnectChange", onConnectChange, Step = "on:connect")
        /\ Kind(out[2]) = "onLog"
        /\ out[2][2] = onLog
        /\ logType(out[2][3]) = "sys"
        /\ (onConnectChange = "App") => (connected <=> (Step = "on:connect"))
    /\ (Step \notin {"on:connect", "on:disconnect"}) => Count(out, "onConnectChange") = 0

C6_Handshake ==
    \A i \in DOMAIN sockets :
        /\ (sockets[i].status # "connected" /\ sockets'[i].status = "connected")
               => last' = <<"on:connect", i>>
        /\ (sockets[i].status = "connected" /\ sockets'[i].status # "connected")
               => (last'[1] = "on:disconnect" /\ last'[2] = i)

C6_ConnectivityEvents == []C6_Reported /\ [][C6_Handshake]_vars

C6_Witness ==
    /\ Step = "on:disconnect"
    /\ onConnectChange = "App"
    /\ onLog = "App"
    /\ ~connected

\* C7: a step of sendCmd (its call, the answer or the failure of its request),
\* an inbound 'message' event and an inbound 'telemetry' event leave the
\* handle, the connected status of every channel and App's connected flag as
\* they were.
C7_Frame ==
    (last'[1] \in {"sendCmd", "fetch:fulfilled", "text:fulfilled", "fetch:rejected",
                   "text:rejected", "on:message", "on:telemetry"})
        => UNCHANGED <<socket, sockets, connected>>

C7_OnlyChannelEvents == [][C7_Frame]_vars

\* the request of a call fails while the channel is up and App shows connected
C7_Witness ==
    /\ Step = "fetch:rejected"
    /\ connected
    /\ onConnectChange = "App"
    /\ Seen(socket, sockets) = "connected"

\* C8: the channel gives up exactly when a connection attempt fails with 10
\* reconnection attempts already made; from then on, as long as connect() is
\* not called, the handle stays the same channel, that channel stays given up
\* (so not connected) and every sendCmd takes the fallback path; the handle
\* changes, and a channel is made, only in a step that is a call of connect().
C8_GiveUp ==
    /\ \A i \in DOMAIN sockets :
           (sockets[i].status # "failed" /\ sockets'[i].status = "failed")
               => (sockets[i].attempts = 10 /\ last' = <<"connect_error", i>>)
    /\ (socket # 0 /\ sockets[socket].status = "failed" /\ last'[1] # "connect") =>
           /\ socket' = socket
           /\ sockets'[socket].status = "failed"
           /\ (last'[1] = "sendCmd") =>
                  (Count(out', "fetch") = 1 /\ Count(out', "emit") = 0)
    /\ (socket' # socket \/ Len(sockets') # Len(sockets)) => last' = <<"connect">>

C8_ExhaustedBudget == [][C8_GiveUp]_vars

C8_Witness ==
    /\ Step = "sendCmd"
    /\ Seen(socket, sockets) = "failed"
    /\ Count(out, "fetch") = 1

\* the payload of the last 'message' event after the structured parse:
\* <<"ok", obj>> or <<"SyntaxError">>
Parsed == IF TypeOf(last[3]) = "string" THEN ParseTable[last[3][2]] ELSE <<"ok", last[3]>>
\* its type discriminator, "" when it has none
Discriminator ==
    LET ty == Get(Parsed[2], "type") IN IF TypeOf(ty) = "string" THEN ty[2] ELSE ""

\* C9: every 'message' payload that is structured, or is text that parses,
\* has exactly one of four outcomes, chosen by its type: telemetry calls the
\* telemetry slot only; ack calls the acknowledgement slot and passes one log
\* line; log passes one log line reporting data; any other or missing type
\* passes one log line rendering the whole value.
C9_FourOutcomes ==
    (Step = "on:message" /\ Parsed[1] = "ok") =>
        CASE Discriminator = "telemetry" ->
                 /\ Len(out) = 1
                 /\ Kind(out[1]) = "onTelemetry"
                 /\ out[1][2] = onTelemetry
          [] Discriminator = "ack" ->
                 /\ Len(out) = 2
                 /\ Kind(out[1]) = "onAck"
                 /\ out[1][2] = onAck
                 /\ Kind(out[2]) = "onLog"
                 /\ out[2][2] = onLog
          [] Discriminator = "log" ->
                 /\ Len(out) = 1
                 /\ Kind(out[1]) = "onLog"
                 /\ out[1][2] = onLog
                 /\ Contains(out[1][3], TemplateString(Get(Parsed[2], "data")))
          [] OTHER ->
                 /\ Len(out) = 1
                 /\ Kind(out[1]) = "onLog"
                 /\ out[1][2] = onLog
                 /\ Contains(out[1][3], JSONtext(Parsed[2]))

\* C10: for every data value d, a 'message' payload {type: 'telemetry', data: d}
\* (structured or as text) and a 'telemetry' event carrying d each call the
\* telemetry slot exactly once, with d itself, and do nothing else.
C10_TelemetryPaths ==
    /\ \A d \in DataValues :
        (Step = "on:message"
           /\ last[3] \in { Envelope("telemetry", d), Str(JSONtext(Envelope("telemetry", d))) })
        => out = << Notify("onTelemetry", onTelemetry, d) >>
    /\ (Step = "on:telemetry") => out = << Notify("onTelemetry", onTelemetry, last[3]) >>

C10_Witness ==
    /\ Step = "on:message"
    /\ last[3] = Str(JSONtext(Envelope("telemetry", Obj(<< <<"us", Num(12)>> >>))))
    /\ onTelemetry = "App"
    /\ out = << Notify("onTelemetry", "App", Obj(<< <<"us", Num(12)>> >>)) >>

\* the JSON text of the data values, written out
AckText(d) ==
    CASE TypeOf(d) = "null" -> "null"
      [] TypeOf(d) = "string" -> "\"" \o d[2] \o "\""
      [] d = Obj(<< <<"ok", Bool(TRUE)>> >>) -> "{\"ok\":true}"
      [] d = Obj(<< <<"us", Num(12)>> >>) -> "{\"us\":12}"

C12_RawText ==
    \A s \in BrokenTexts :
        (Step = "on:message" /\ last[3] = Str(s)) =>
            /\ out = << Notify("onLog", onLog, s) >>
            /\ onLog = "App" => onLogHandler(out[1][3]) = [type |-> "rx", message |-> s]

\* C13: no inbound event raises an error: the 'message' and 'telemetry'
\* handlers throw nothing whatever the payload, and App's telemetry handler
\* throws nothing on the data it is given (reading d.us of it must succeed).
C13_NoError ==
    (Step \in {"on:message", "on:telemetry"}) =>
        /\ Count(out, "throw") = 0
        /\ \A n \in DOMAIN out :
              (Kind(out[n]) = "onTelemetry" /\ out[n][2] = "App") => ~ReadThrows(out[n][3])

\* the category of the log lines of a step: a command sent is outbound, a
\* message or a fallback response received is inbound, the rest is system
Category(step) ==
    CASE step = "sendCmd" -> "tx"
      [] step \in {"on:message", "text:fulfilled"} -> "rx"
      [] OTHER -> "sys"

Prefix(category) ==
    CASE category = "tx" -> "TX:"
      [] category = "rx" -> "RX:"
      [] OTHER -> "SYS:"

\* C14: every log line the client passes to the log slot begins with 'TX:'
\* when it reports a transmission, 'RX:' when it reports something received
\* and 'SYS:' when it reports a connectivity or failure event, and App's
\* handler gives it the category outbound, inbound or system accordingly.
C14_Prefixes ==
    \A n \in DOMAIN out :
        Kind(out[n]) = "onLog" =>
            /\ startsWith(out[n][3], Prefix(Category(Step)))
            /\ onLogHandler(out[n][3]).type = Category(Step)

\* C15: a log line that begins with none of 'TX:', 'RX:', 'SYS:' is given
\* the category system by App's handler, also when it begins with 'TX' or
\* 'RX' without the colon.
C15_SystemByDefault ==
    \A n \in DOMAIN out :
        (/\ Kind(out[n]) = "onLog"
         /\ out[n][2] = "App"
         /\ \A c \in {"tx", "rx", "sys"} : ~startsWith(out[n][3], Prefix(c)))
        => onLogHandler(out[n][3]).type = "sys"

\* C16 (state): the log list never has more than 100 entries and is ordered
\* newest first.
C16_NewestFirst ==
    /\ Len(logs) <= 100
    /\ \A i, j \in DOMAIN logs : i < j => logs[i].id > logs[j].id

\* C16 (step): adding an entry puts it first and keeps the others in their
\* order; when the list had 100 entries, exactly the oldest one is dropped.
C16_Insert ==
    (last'[1] = "addLog") =>
        /\ logs'[1].id \notin { logs[i].id : i \in DOMAIN logs }
        /\ logs'[1].type = last'[2] /\ logs'[1].message = last'[3]
        /\ Len(logs) < 100 => logs' = << logs'[1] >> \o logs
        /\ Len(logs) = 100 => logs' = << logs'[1] >> \o SubSeq(logs, 1, 99)

\* C16: the log list holds at most 100 entries, newest first; adding an entry
\* to a list of 100 drops exactly the oldest, puts the new entry first and
\* keeps the order of the other 99.
C16_BoundedLog == []C16_NewestFirst /\ [][C16_Insert]_vars

C16_Witness ==
    /\ Step = "addLog"
    /\ Len(logs) = 100
    /\ logs[1].id = 103
    /\ logs[100].id = 4

\* whether the object d has the key k
HasKey(d, k) == TypeOf(d) = "object" /\ \E i \in DOMAIN d[2] : d[2][i][1] = k
\* whether d says anything of the field f of the snapshot
Provides(d, f) ==
    IF f = "pos" THEN HasKey(d, "pos")
    ELSE HasKey(d, KeyPairs[f][1]) \/ HasKey(d, KeyPairs[f][2])

\* C17: when a telemetry update is merged into the snapshot, every field the
\* update does not provide keeps the value it had, and every field it provides
\* takes the value provided; so after any sequence of partial updates each
\* field holds the value most recently provided for it.
C17_Merge ==
    [][ (last'[1] = "setTelemetry" /\ TypeOf(last'[2]) = "object") =>
            \A f \in DOMAIN telemetry :
                IF Provides(last'[2], f)
                THEN telemetry'[f] = normalizeTelemetry(last'[2])[f]
                ELSE telemetry'[f] = telemetry[f] ]_vars

\* C18 (as claimed): for every field with a long and a short key, when the
\* update has both keys the field takes the long-form value; when it has one
\* of them the field takes that one's value.
C18_LongFormWins ==
    (Step = "setTelemetry" /\ TypeOf(last[2]) = "object") =>
        \A f \in DOMAIN KeyPairs :
            LET long == KeyPairs[f][1]
                short == KeyPairs[f][2]
            IN  /\ HasKey(last[2], long) => telemetry[f] = Get(last[2], long)
                /\ (HasKey(last[2], short) /\ ~HasKey(last[2], long))
                      => telemetry[f] = Get(last[2], short)

\* C18: for every field with a long and a short key, when the update has the
\* long key with a value other than null the field takes that value, whether
\* the short key is there or not; when the long key is missing or null the
\* field takes what the short key reads (undefined when it is missing too).
C18_LongFormUnlessNull ==
    (Step = "setTelemetry" /\ TypeOf(last[2]) = "object") =>
        \A f \in DOMAIN KeyPairs :
            LET long == KeyPairs[f][1]
                short == KeyPairs[f][2]
            IN  IF HasKey(last[2], long) /\ Get(last[2], long) # JsNull
                THEN telemetry[f] = Get(last[2], long)
                ELSE telemetry[f] = Get(last[2], short)

C18_Witness ==
    /\ Step = "setTelemetry"
    /\ last[2] = Obj(<< <<"temp", Num(0)>>, <<"T", Num(2)>> >>)
    /\ telemetry.temp = Num(0)

\* C19: the position of the snapshot is the update's `pos` only when that is
\* a pair (an array of two elements); for anything else it is absent (null).
C19_PairOnly ==
    (Step = "setTelemetry" /\ TypeOf(last[2]) = "object") =>
        LET pos == Get(last[2], "pos")
        IN  IF TypeOf(pos) = "array" /\ Len(pos[2]) = 2
            THEN telemetry.pos = pos
            ELSE telemetry.pos = JsNull

\* the steps in which a suspended sendCmd call goes on
Continuations == {"fetch:fulfilled", "text:fulfilled", "fetch:rejected", "text:rejected"}
\* the log lines of fx that report a fallback response or its failure
Completions(fx) ==
    SelectSeq(fx, LAMBDA e : /\ Kind(e) = "onLog"
                             /\ \/ startsWith(e[3], "HTTP Resp: ")
                                \/ startsWith(e[3], "HTTP Send Failed: "))

\* C20 (state): while a fallback request is awaited, every event the channel
\* can deliver in its state and every sendCmd can still take place.
C20_NotBlocked ==
    (Len(inflight) >= 1) =>
        /\ \A i \in DOMAIN sockets :
              /\ sockets[i].status = "opening" => ENABLED OnConnect(i) /\ ENABLED OpenError(i)
              /\ sockets[i].status = "connected" =>
                    /\ \A reason \in {"transport close", "io server disconnect"} :
                          ENABLED OnDisconnect(i, reason)
                    /\ \A payload \in BranchPayloads : ENABLED OnMessage(i, payload)
                    /\ \A t \in BranchData : ENABLED OnTelemetry(i, t)
        /\ \A cmd \in Commands : ENABLED SendCmd(cmd)

\* C20 (step): a step taken while requests are awaited, other than the
\* continuation of one of them, leaves every awaited call as it was and logs
\* no response or failure; a sendCmd among them runs as far as it would
\* alone (to its return on the persistent channel, to its own request on the
\* fallback); the continuation of one call leaves the other calls as they
\* were and logs at most its own line.
C20_OwnLineOnly ==
    (Len(inflight) >= 1) =>
        IF last'[1] \in Continuations
        THEN /\ \E k \in DOMAIN inflight :
                   \/ inflight' = Remove(inflight, k)
                   \/ /\ DOMAIN inflight' = DOMAIN inflight
                      /\ \A j \in DOMAIN inflight : j # k => inflight'[j] = inflight[j]
             /\ Len(Completions(out')) <= 1
        ELSE /\ SubSeq(inflight', 1, Len(inflight)) = inflight
             /\ Completions(out') = <<>>
             /\ last'[1] = "sendCmd" =>
                   IF Seen(socket, sockets) = "connected"
                   THEN /\ Len(ret') = 1 /\ ret'[1].call.settled = "fulfilled"
                        /\ Count(out', "emit") = 1 /\ Count(out', "onLog") = 1
                        /\ inflight' = inflight
                   ELSE /\ Len(inflight') = Len(inflight) + 1
                        /\ inflight'[Len(inflight')].call.pc = "fetch"
                        /\ Count(out', "fetch") = 1 /\ Count(out', "onLog") = 1

\* C20: a fallback request that is awaited, for however long, holds nothing
\* else up: connectivity events, inbound messages and further sendCmd calls on
\* either path are processed meanwhile, and the request delays only its own
\* response or failure log line.
C20_NothingHeldUp == []C20_NotBlocked /\ [][C20_OwnLineOnly]_vars

C20_Witness ==
    /\ Len(inflight) = 2
    /\ inflight[1].call.pc = "fetch"
    /\ Step = "sendCmd"
    /\ Count(out, "fetch") = 1

\* the slot a notification of kind cb is for
SlotOf(cb) ==
    CASE cb = "onTelemetry" -> onTelemetry
      [] cb = "onLog" -> onLog
      [] cb = "onAck" -> onAck
      [] cb = "onConnectChange" -> onConnectChange

\* C21 (state): every notification of an event went to what its slot holds,
\* and to nothing else: one call per notification, to one handler.
C21_Delivered ==
    \A n \in DOMAIN out :
        Kind(out[n]) \in {"onTelemetry", "onLog", "onAck", "onConnectChange"}
            => out[n][2] = SlotOf(Kind(out[n]))

\* C21 (step): an assignment puts the new handler in its slot, whatever the
\* slot held, and leaves the other three slots as they were; no other step
\* changes a slot.
C21_Assign ==
    IF last'[1] = "set"
    THEN /\ onTelemetry' = IF last'[2] = "onTelemetry" THEN last'[3] ELSE onTelemetry
         /\ onLog' = IF last'[2] = "onLog" THEN last'[3] ELSE onLog
         /\ onAck' = IF last'[2] = "onAck" THEN last'[3] ELSE onAck
         /\ onConnectChange' = IF last'[2] = "onConnectChange" THEN last'[3] ELSE onConnectChange
    ELSE UNCHANGED slots

\* C21: each of the four slots holds one handler, the one assigned last:
\* after an assignment every event of that kind goes to the new handler only,
\* never again to the one before, and the other three slots are untouched.
C21_LastWriterWins == []C21_Delivered /\ [][C21_Assign]_vars

\* App's handlers were in the slots from the start: here the connectivity slot
\* was assigned again and the event went to the new handler alone
C21_Witness ==
    /\ Step = "on:connect"
    /\ onConnectChange = "Other"
    /\ onLog = "App"
    /\ out = << Notify("onConnectChange", "Other", TRUE),
                Notify("onLog", "App", "WebSocket Connected") >>

\* C22: however often connect() was called, only the channel of the handle
\* (the one sendCmd consults) delivers events to the slots, and the
\* connectivity value last reported to the subscriber is that channel's
\* connected status.
C22_OneChannel ==
    /\ Step \in {"on:connect", "on:disconnect", "on:message", "on:telemetry"}
          => last[2] = socket
    /\ connected = (Seen(socket, sockets) = "connected")

Outbound(fx, cmd) ==
    /\ Len(fx) >= 2
    /\ Kind(fx[1]) = "onLog"
    /\ fx[1][3] = "HTTP: " \o cmd \o " (Fallback)"
    /\ Kind(fx[2]) = "fetch"

\* C24: a sendCmd on the fallback logs its outbound line and then issues its
\* request; while the call waits nothing more is logged for it; when the
\* request completes the call logs one line more, the response line if the
\* response was read and the failure line if not, never both.  With several
\* calls waiting each has its own outbound line and its own completion line.
C24_FallbackLines ==
    /\ (Step = "sendCmd" /\ Len(ret) = 0) =>
          /\ Len(out) = 2
          /\ Outbound(out, last[2])
          /\ inflight[Len(inflight)].call.fx = out
    /\ \A k \in DOMAIN inflight :
          /\ Len(inflight[k].call.fx) = 2
          /\ Outbound(inflight[k].call.fx, inflight[k].call.cmd)
    /\ Step = "fetch:fulfilled" => out = <<>>
    /\ Step \in {"text:fulfilled", "fetch:rejected", "text:rejected"} =>
          /\ Len(ret) = 1
          /\ Len(ret[1].call.fx) = 3
          /\ Outbound(ret[1].call.fx, ret[1].call.cmd)
          /\ out = << ret[1].call.fx[3] >>
          /\ Len(Completions(out)) = 1
          /\ startsWith(out[1][3], "HTTP Resp: ") <=> Step = "text:fulfilled"
          /\ startsWith(out[1][3], "HTTP Send Failed: ") <=> Step # "text:fulfilled"

\* one of two waiting calls got its response line, the other still waits
C24_Witness ==
    /\ Step = "text:fulfilled"
    /\ Len(inflight) = 1
    /\ Len(ret) = 1
    /\ ret[1].call.cmd # inflight[1].call.cmd
    /\ out = << Notify("onLog", "App", "HTTP Resp: OK") >>

\* fx transmits the command cmd exactly once, on either path
SendsOnce(fx, cmd) ==
    /\ Transmissions(fx) = 1
    /\ \A n \in DOMAIN fx :
          /\ Kind(fx[n]) = "emit" => fx[n][4] = Obj(<< <<"cmd", Str(cmd)>> >>)
          /\ Kind(fx[n]) = "fetch" => fx[n][5] = OneField("c", cmd)

\* C25 (state): at most one timer is set, the one the ref holds; startHold(c)
\* has sent c once and left exactly one timer, for c, every 250 ms; after
\* stopHold no timer is set.
C25_OneTimer ==
    /\ Cardinality(timers) <= 1
    /\ \A t \in timers : t.id = holdInterval /\ t.delay = 250
    /\ holdInterval # 0 => \E t \in timers : t.id = holdInterval
    /\ Step = "startHold" =>
          /\ timers = { [id |-> holdInterval, cmd |-> last[2], delay |-> 250] }
          /\ SendsOnce(out, last[2])
    /\ Step = "stopHold" => timers = {} /\ holdInterval = 0 /\ out = <<>>

\* C25 (step): a periodic send comes from the timer that is set, sends that
\* timer's command once and leaves the timer as it is; so with no timer set
\* (after stopHold) there is no periodic send.
C25_Periodic ==
    last'[1] = "interval" =>
        /\ timers = { [id |-> last'[2], cmd |-> last'[3], delay |-> 250] }
        /\ SendsOnce(out', last'[3])
        /\ UNCHANGED hold

\* C25: whatever the sequence of startHold and stopHold calls, at most one
\* hold timer is set; startHold(c) sends c once at once and replaces the timer
\* by one that sends c every 250 ms; after stopHold no timer is set and
\* nothing is sent periodically until the next startHold.
C25_HoldTimer == []C25_OneTimer /\ [][C25_Periodic]_vars

\* a periodic send from a timer that replaced an earlier one
C25_Witness ==
    /\ Step = "interval"
    /\ last[3] = "STOP"
    /\ holdInterval = 2
    /\ timers = { [id |-> 2, cmd |-> "STOP", delay |-> 250] }
    /\ Count(out, "emit") = 1

\* the calls of fx that reached a handler: a call of an empty slot is none
Delivered(fx) ==
    SelectSeq(fx, LAMBDA e : /\ Kind(e) \in {"onTelemetry", "onLog", "onAck", "onConnectChange"}
                             /\ e[2] # Null)
AckPayloads ==
    { Envelope("ack", Obj(<< <<"ok", Bool(TRUE)>> >>)),
      Str(JSONtext(Envelope("ack", Obj(<< <<"ok", Bool(TRUE)>> >>)))) }

\* C26: an event whose slot is empty is dropped without an error and the
\* rest of its handler still happens: a connect or disconnect with no
\* connectivity handler still logs its line, an 'ack' with no acknowledgement
\* handler still logs its line, telemetry with no telemetry handler does
\* nothing, and with no log handler every log line is discarded while the
\* command is still transmitted.
C26_EmptySlots ==
    /\ ~(Step = "on:message" /\ last[3] = JsNull) => Count(out, "throw") = 0
    /\ (Step = "on:connect" /\ onConnectChange = Null) =>
          Logs(out) = << Notify("onLog", onLog, "WebSocket Connected") >>
    /\ (Step = "on:disconnect" /\ onConnectChange = Null) =>
          Logs(out) = << Notify("onLog", onLog, "WebSocket Disconnected") >>
    /\ (Step = "on:message" /\ last[3] \in AckPayloads /\ onAck = Null) =>
          Logs(out) = << Notify("onLog", onLog, "ACK: {\"ok\":true}") >>
    /\ (Step \in {"on:message", "on:telemetry"} /\ onTelemetry = Null) =>
          Only(Delivered(out), "onTelemetry") = <<>>
    /\ onLog = Null =>
          /\ Only(Delivered(out), "onLog") = <<>>
          /\ Step = "sendCmd" => Transmissions(out) = 1
    /\ (onTelemetry = Null /\ onLog = Null /\ onAck = Null /\ onConnectChange = Null)
          => Delivered(out) = <<>>

\* an 'ack' arrives with no acknowledgement handler: App still gets the line
C26_Witness ==
    /\ Step = "on:message"
    /\ last[3] \in AckPayloads
    /\ onAck = Null
    /\ Delivered(out) = << Notify("onLog", "App", "ACK: {\"ok\":true}") >>

\* the commands fx transmits, in order: the cmd of each 'cmd' event and the c
\* of each request body {"c":"..."}
SentCmds(fx) ==
    LET tx == SelectSeq(fx, LAMBDA e : Kind(e) \in {"emit", "fetch"})
    IN  [n \in DOMAIN tx |->
            IF Kind(tx[n]) = "emit" THEN Get(tx[n][4], "cmd")[2]
            ELSE SubSeq(tx[n][5], 7, Len(tx[n][5]) - 2)]

\* the value the claim gives for what was committed or entered, written out
ClaimedSpeed(task) ==
    IF task[1] = "commitSpeed"
    THEN (IF task[3] < 0 THEN 0 ELSE IF task[3] > 255 THEN 255 ELSE task[3])
    ELSE CASE task[3] = "" -> 0
           [] task[3] = "-5" -> 0
           [] task[3] = "0" -> 0
           [] task[3] = "140" -> 140
           [] task[3] = "256" -> 255
           [] task[3] = "12.7" -> 12
           [] task[3] = "1e3" -> 1

\* C27: whatever integer is committed or entered, the speed commands sent
\* carry an integer in 0..255 (0 for less, 255 for more, the integer itself
\* otherwise); a drive speed is sent as 'LSPD v' then 'RSPD v' with one v, a
\* roller speed as one 'ROLLERSPD v', and nothing else is sent.
C27_SpeedCommands ==
    (Step \in {"commitSpeed", "handleSubmit"}) =>
        \E v \in 0..255 :
            /\ v = ClaimedSpeed(last)
            /\ SentCmds(out) =
                   IF last[2] = "ROLLERSPD"
                   THEN << "ROLLERSPD " \o ToString(v) >>
                   ELSE << "LSPD " \o ToString(v), "RSPD " \o ToString(v) >>

\* a drive speed above the range committed while the channel is down
C27_Witness ==
    /\ last = <<"commitSpeed", "LSPD", 256>>
    /\ Count(out, "fetch") = 2
    /\ SentCmds(out) = << "LSPD 255", "RSPD 255" >>

====
